---- MODULE Spec2Model ----
(***************************************************************************)
(* Model of the portfolio reconciliation of icd-backend:                   *)
(*   assets/views.py     SyncWalletDataView.post, PortfolioView.get        *)
(*   assets/services.py  RiskAnalysisService                               *)
(*   assets/models.py    Portfolio, PortfolioSnapshot, RiskMetrics,        *)
(*                       WalletToken (stored in the tree as tests.py)      *)
(*   assets/admin.py     the admin site's registrations                    *)
(*   wallets/services.py MoralisService                                    *)
(* One user, hence one portfolio.  Money is counted in whole USD, stored   *)
(* percentages in hundredths of a percent, time in days.                   *)
(***************************************************************************)
EXTENDS Integers, Sequences, FiniteSets, TLC

VARIABLES
    now,          \* the clock (datetime.now()), in days
    walletTokens, \* WalletToken rows: <<wallet, symbol>> -> balance_usd
    portfolio,    \* the user's Portfolio row (exists = FALSE: no row)
    snapshots,    \* PortfolioSnapshot rows of the portfolio, in insertion order
    riskMetrics,  \* the portfolio's RiskMetrics row (exists = FALSE: no row)
    calls,        \* what the provider answered to each call of the last sync
    results,      \* the body of the last sync response
    last,         \* the last request handled: which, and the handler's locals
    transactions, \* the Transaction table: a set of rows
    inflight      \* sync requests handled concurrently: position and locals

vars == <<now, walletTokens, portfolio, snapshots, riskMetrics, calls, results, last,
          transactions, inflight>>

----------------------------------------------------------------------------
(* Bounds *)

\* The clock runs over 0..MaxDay.
MaxDay == 1

\* At most MaxSnapshots PortfolioSnapshot rows are stored.
MaxSnapshots == 7

\* At most MaxFailures provider calls of one faulty sync do not succeed.
MaxFailures == 2

----------------------------------------------------------------------------
(* Data *)

\* None / SQL NULL of a nullable column.
NULL == -1000000

\* The user's wallets (WalletUser rows), in the order the queryset yields them.
WalletOrder == <<"w1", "w2">>

Wallets == {WalletOrder[i] : i \in 1..Len(WalletOrder)}

\* Token symbols; Holdings[w] are the tokens the provider can report for w.
Symbols == {"BTC", "ETH"}

Holdings == [w \in Wallets |-> IF w = "w1" THEN {"BTC", "ETH"} ELSE {"BTC"}]

\* The USD values a token position can be reported with.
TokenValues == {0, 1}

\* The three provider calls made per wallet.
Sources == {"Balance", "Tokens", "Transactions"}

\* ok:        status 200 and a well-formed body, (True, data)
\* error:     non-200 status or an exception inside the client, (False, message)
\* malformed: status 200 with a body on which the view's processing raises
\*            before it stores anything (a 'tokens' or 'result' entry that
\*            is not iterable, a 'chains' entry that is not a list of dicts)
Outcomes == {"ok", "error", "malformed"}

\* the namespace had line 8 imported PortfolioSnapshot too
ViewsGlobalsWithSnapshot == {"status", "api_view", "APIView", "Response",
    "IsAuthenticated", "Wallet", "WalletUser", "Token", "WalletToken",
    "Transaction", "Portfolio", "PortfolioSnapshot", "RiskMetrics", "TokenSerializer",
    "WalletTokenSerializer", "TransactionSerializer", "PortfolioSerializer",
    "RiskMetricsSerializer", "MoralisService", "logging", "datetime",
    "timedelta", "logger"}

\* names bound in the module namespace of assets/views.py by its imports
\* and assignments (lines 2-17): PortfolioSnapshot is not among them
ViewsGlobals == {"status", "api_view", "APIView", "Response",
    "IsAuthenticated", "Wallet", "WalletUser", "Token", "WalletToken",
    "Transaction", "Portfolio", "RiskMetrics", "TokenSerializer",
    "WalletTokenSerializer", "TransactionSerializer", "PortfolioSerializer",
    "RiskMetricsSerializer", "MoralisService", "logging", "datetime",
    "timedelta", "logger"}

\* A name used in views.py resolves iff the module binds it; otherwise the
\* use raises NameError.
NameDefined(name) == name \in ViewsGlobals

NoPortfolio == [exists |-> FALSE, total_value_usd |-> 0,
    previous_day_value_usd |-> NULL, previous_week_value_usd |-> NULL,
    previous_month_value_usd |-> NULL,
    all_time_high_usd |-> NULL, all_time_high_date |-> NULL,
    all_time_low_usd |-> NULL, all_time_low_date |-> NULL,
    last_updated |-> NULL]

NoRiskMetrics == [exists |-> FALSE, volatility_30d |-> NULL,
    volatility_90d |-> NULL, max_drawdown |-> NULL, sharpe_ratio |-> NULL,
    value_at_risk |-> NULL, concentration_risk |-> NULL]

NoResponse == [sent |-> FALSE, wallets_synced |-> 0, tokens_synced |-> 0,
    transactions_synced |-> 0, failed_syncs |-> <<>>]

AllOk == [w \in Wallets |-> [s \in Sources |-> "ok"]]

NoCalls == [w \in Wallets |-> [s \in Sources |-> "none"]]

----------------------------------------------------------------------------
(* Helpers *)

RECURSIVE SumOver(_, _)
\* sum(f[x] for x in S)
SumOver(f, S) ==
    IF S = {} THEN 0
    ELSE LET x == CHOOSE y \in S : TRUE IN f[x] + SumOver(f, S \ {x})

\* max(S) of a non-empty set of integers
MaxOf(S) == CHOOSE m \in S : \A x \in S : x <= m

\* min(S) of a non-empty set of integers
MinOf(S) == CHOOSE m \in S : \A x \in S : m <= x

\* n/d rounded to an integer, ties to even: the quantize of a DecimalField
RoundHalfEven(n, d) ==
    LET q == n \div d
        r == n % d
    IN  IF 2 * r < d THEN q
        ELSE IF 2 * r > d THEN q + 1
        ELSE IF q % 2 = 0 THEN q ELSE q + 1

\* get_or_create(user=request.user)
GetOrCreatePortfolio(p) == IF p.exists THEN p ELSE [NoPortfolio EXCEPT !.exists = TRUE]

\* get_or_create(portfolio=portfolio)
GetOrCreateRiskMetrics(r) == IF r.exists THEN r ELSE [NoRiskMetrics EXCEPT !.exists = TRUE]

\* sum(wt.balance_usd or 0 for wt in wallet_tokens)
TotalValue(tokens) == SumOver(tokens, DOMAIN tokens)

----------------------------------------------------------------------------
(* The provider: MoralisService, seen from the sync *)

SourceOrder == <<"Balance", "Tokens", "Transactions">>

\* What get_wallet_tokens can report for one wallet: token -> USD value.
Payloads(w) == UNION {[S -> TokenValues] : S \in SUBSET Holdings[w]}

TokenData == {d \in [Wallets -> UNION {Payloads(w) : w \in Wallets}] :
                 \A w \in Wallets : d[w] \in Payloads(w)}

\* The provider reports no token for any wallet.
EmptyData == [w \in Wallets |-> <<>>]

\* The provider reports one BTC position of 1 USD for every wallet.
OneTokenData == [w \in Wallets |-> [s \in {"BTC"} |-> 1]]

\* a key that a dict of the provider does not have
Absent == -3000000

\* the order in which the provider lists the tokens of a wallet
SymbolOrder == <<"BTC", "ETH">>

\* the token_info of a position worth v USD: v whole tokens at 1 USD each
TokenInfo(symbol, v) ==
    [symbol |-> symbol, balance |-> v, decimals |-> 0, usd_price |-> 1]

\* the 'tokens' list that reports the positions pos (symbol -> USD value)
TokenList(pos) ==
    LET Listed(sym) == sym \in DOMAIN pos
        syms == SelectSeq(SymbolOrder, Listed)
    IN  [i \in 1..Len(syms) |-> TokenInfo(syms[i], pos[syms[i]])]

TokenLists(data) == [w \in Wallets |-> TokenList(data[w])]

\* The 'tokens' lists of TokenData, of OneTokenData and of EmptyData.
TokenListData == {TokenLists(data) : data \in TokenData}

OneTokenLists == TokenLists(OneTokenData)

EmptyLists == TokenLists(EmptyData)

\* The provider reports no transaction for any wallet.
NoTransactions == [w \in Wallets |-> <<>>]

\* Wallet.address as stored, and the strings the provider can report
WalletAddress == [w \in Wallets |-> IF w = "w1" THEN "0xAB" ELSE "0xcd"]

\* str.lower()
Lower(a) ==
    CASE a \in {"0xab", "0xAB"} -> "0xab"
      [] a \in {"0xcd", "0xCD"} -> "0xcd"
      [] OTHER -> a

NotOk(cl) == {ws \in Wallets \X Sources : cl[ws[1]][ws[2]] # "ok"}

\* Provider behaviours with at most MaxFailures calls that do not succeed.
FaultyCalls == {cl \in [Wallets -> [Sources -> Outcomes]] :
                   Cardinality(NotOk(cl)) <= MaxFailures}

----------------------------------------------------------------------------
(* SyncWalletDataView.post: the per-wallet loop *)

\* float(token_info.get('usd_price', 0)): float(None) raises TypeError
PriceRaises(token_info) == token_info.usd_price = NULL

\* balance_raw / (10 ** decimals) * (float(usd_price) or 0), as the
\* balance_usd column stores it; an absent price reads as 0
BalanceUsd(token_info) ==
    LET usd_price == IF token_info.usd_price = Absent THEN 0 ELSE token_info.usd_price
    IN  RoundHalfEven(token_info.balance * usd_price, 10 ^ token_info.decimals)

\* the entries of a 'tokens' list that the for loop completes: the
\* exception of an entry leaves the loop, and the try, of the wallet
Completed(list) ==
    LET raising == {i \in 1..Len(list) : PriceRaises(list[i])}
    IN  IF raising = {} THEN list ELSE SubSeq(list, 1, MinOf(raising) - 1)

\* the entries completed for wallet w
TokensDone(w, cl, data) ==
    IF cl[w]["Tokens"] = "ok" THEN Completed(data[w]) ELSE <<>>

\* the rows a completed list writes: symbol -> balance_usd, a later entry
\* of a symbol overwriting an earlier one
RowsOf(list) ==
    [sym \in {list[i].symbol : i \in 1..Len(list)} |->
        BalanceUsd(list[MaxOf({i \in 1..Len(list) : list[i].symbol = sym})])]

\* what the token loops of one sync write, per wallet
TokenUpdates(cl, data) == [w \in Wallets |-> RowsOf(TokensDone(w, cl, data))]

\* WalletToken.objects.update_or_create for every completed token of every
\* wallet whose token call succeeded; rows of tokens not reported are left
\* as they are.
TokensAfter(tokens, upd) ==
    [k \in (DOMAIN tokens) \cup {ws \in Wallets \X Symbols : ws[2] \in DOMAIN upd[ws[1]]} |->
        IF k[2] \in DOMAIN upd[k[1]] THEN upd[k[1]][k[2]] ELSE tokens[k]]

\* int(tx_info.get('block_timestamp', 0)): raises ValueError on a date string
TimestampRaises(tx_info) == tx_info.block_timestamp \notin {"1700000000"}

\* tx_type: the reported addresses are compared, as they are, with the
\* lower-cased address of the wallet
TransactionType(tx_info, address) ==
    IF tx_info.from_address = Lower(address) THEN "send"
    ELSE IF tx_info.to_address = Lower(address) THEN "receive"
    ELSE "unknown"

\* the positions of the 'result' list of wallet w that are stored: an entry
\* whose processing raises is logged and skipped
TransactionsDone(w, cl, txs) ==
    IF cl[w]["Transactions"] = "ok"
    THEN {i \in 1..Len(txs[w]) : ~TimestampRaises(txs[w][i])}
    ELSE {}

\* the defaults handed to update_or_create
TransactionDefaults(tx_info, w) ==
    [timestamp |-> tx_info.block_timestamp,
     from_address |-> tx_info.from_address,
     to_address |-> tx_info.to_address,
     transaction_type |-> TransactionType(tx_info, WalletAddress[w])]

\* a new row: the lookup fields, the defaults and the next primary key
CreatedRow(rows, w, tx_info) ==
    LET defaults == TransactionDefaults(tx_info, w)
    IN  [id |-> Cardinality(rows) + 1, wallet |-> w, transaction_hash |-> tx_info.hash,
         timestamp |-> defaults.timestamp,
         from_address |-> defaults.from_address,
         to_address |-> defaults.to_address,
         transaction_type |-> defaults.transaction_type]

\* a write that creates a row whether or not one matches
UpdateOrCreateCreating(rows, w, tx_info) == rows \cup {CreatedRow(rows, w, tx_info)}

\* Transaction.objects.update_or_create(wallet, transaction_hash, defaults):
\* the row of the wallet with the hash gets the defaults; without such a
\* row, one is created
UpdateOrCreate(rows, w, tx_info) ==
    LET found == {row \in rows : row.wallet = w /\ row.transaction_hash = tx_info.hash}
        defaults == TransactionDefaults(tx_info, w)
    IN  IF found = {}
        THEN rows \cup {CreatedRow(rows, w, tx_info)}
        ELSE (rows \ found) \cup
             {[row EXCEPT !.timestamp = defaults.timestamp,
                          !.from_address = defaults.from_address,
                          !.to_address = defaults.to_address,
                          !.transaction_type = defaults.transaction_type] : row \in found}

RECURSIVE WalletTransactionsAfter(_, _, _, _)
\* the table after the entries 1..n of the 'result' list of wallet w, in
\* the order of the list
WalletTransactionsAfter(rows, w, list, n) ==
    IF n = 0 THEN rows
    ELSE IF TimestampRaises(list[n])
         THEN WalletTransactionsAfter(rows, w, list, n - 1)
         ELSE UpdateOrCreate(WalletTransactionsAfter(rows, w, list, n - 1), w, list[n])

RECURSIVE TransactionsAfterWallets(_, _, _, _)
\* the table after the wallets WalletOrder[1..n]
TransactionsAfterWallets(rows, cl, txs, n) ==
    IF n = 0 THEN rows
    ELSE LET w == WalletOrder[n]
         IN  IF cl[w]["Transactions"] = "ok"
             THEN WalletTransactionsAfter(TransactionsAfterWallets(rows, cl, txs, n - 1),
                                          w, txs[w], Len(txs[w]))
             ELSE TransactionsAfterWallets(rows, cl, txs, n - 1)

\* the table after the loop
TransactionsAfter(rows, cl, txs) == TransactionsAfterWallets(rows, cl, txs, Len(WalletOrder))

\* The entries the except blocks of one wallet append to failed_syncs: a
\* block is entered only when the processing inside its try raises.
WalletFailures(w, cl, data) ==
    LET Raised(s) == \/ cl[w][s] = "malformed"
                     \/ /\ s = "Tokens" /\ cl[w][s] = "ok"
                        /\ \E i \in 1..Len(data[w]) : PriceRaises(data[w][i])
        labels == [i \in 1..Len(SourceOrder) |-> <<SourceOrder[i], w>>]
        Kept(l) == Raised(l[1])
    IN  SelectSeq(labels, Kept)

RECURSIVE LoopFailures(_, _, _)
\* failed_syncs after the wallets WalletOrder[1..n]
LoopFailures(n, cl, data) ==
    IF n = 0 THEN <<>>
    ELSE LoopFailures(n - 1, cl, data) \o WalletFailures(WalletOrder[n], cl, data)

\* results['wallets_synced']
WalletsSynced(cl) == Cardinality({w \in Wallets : cl[w]["Balance"] = "ok"})

\* results['tokens_synced']
TokensSynced(cl, data) ==
    SumOver([w \in Wallets |-> Len(TokensDone(w, cl, data))], Wallets)

\* results['transactions_synced']
TransactionsSynced(cl, txs) ==
    SumOver([w \in Wallets |-> Cardinality(TransactionsDone(w, cl, txs))], Wallets)

----------------------------------------------------------------------------
(* SyncWalletDataView.post: the portfolio update *)

\* a fill that treats every stored value as unset
CheckpointUnsetAlways(x) == TRUE

\* `not portfolio.previous_*_value_usd`: None and Decimal 0 are both falsy
CheckpointUnset(x) == x = NULL \/ x = 0

\* the three lazy fills of an existing portfolio
FillCheckpoints(p, total) ==
    [p EXCEPT
        !.previous_day_value_usd = IF CheckpointUnset(@) THEN total ELSE @,
        !.previous_week_value_usd = IF CheckpointUnset(@) THEN total ELSE @,
        !.previous_month_value_usd = IF CheckpointUnset(@) THEN total ELSE @]

\* the high test without its `is None` arm
HighNeedsUpdateNoNone(p, total) ==
    p.all_time_high_usd # NULL /\ total > p.all_time_high_usd

HighNeedsUpdate(p, total) ==
    p.all_time_high_usd = NULL \/ total > p.all_time_high_usd

LowNeedsUpdate(p, total) ==
    p.all_time_low_usd = NULL \/ total < p.all_time_low_usd

\* the ATH/ATL update of an existing portfolio
UpdateExtrema(p, total, today) ==
    LET p1 == IF HighNeedsUpdate(p, total)
              THEN [p EXCEPT !.all_time_high_usd = total, !.all_time_high_date = today]
              ELSE p
    IN  IF LowNeedsUpdate(p1, total)
        THEN [p1 EXCEPT !.all_time_low_usd = total, !.all_time_low_date = today]
        ELSE p1

\* the else branch: a portfolio this request created
InitializeNew(p, total, today) ==
    [p EXCEPT
        !.previous_day_value_usd = total,
        !.previous_week_value_usd = total,
        !.previous_month_value_usd = total,
        !.all_time_high_usd = total, !.all_time_high_date = today,
        !.all_time_low_usd = total, !.all_time_low_date = today]

\* portfolio.total_value_usd = total_value; portfolio.save()
\* (last_updated is auto_now)
SavePortfolio(p, total, t) ==
    [p EXCEPT !.total_value_usd = total, !.last_updated = t]

\* token_values: balance_usd summed per token symbol over all the wallets
TokenValuesBySymbol(tokens) ==
    LET syms == {k[2] : k \in DOMAIN tokens}
    IN  [s \in syms |-> SumOver(tokens, {k \in DOMAIN tokens : k[2] = s})]

\* (largest_position / total_value) * 100, as the column stores it
ConcentrationRisk(tokens, total) ==
    LET tv == TokenValuesBySymbol(tokens)
        largest_position == MaxOf({tv[s] : s \in DOMAIN tv})
    IN  RoundHalfEven(largest_position * 10000, total)

\* the concentration step: the field is assigned only under the condition
UpdateConcentration(r, tokens, total) ==
    IF DOMAIN tokens # {} /\ total > 0
    THEN [r EXCEPT !.concentration_risk = ConcentrationRisk(tokens, total)]
    ELSE r

\* the provider reports transactions, and it behaves and reports as it did
\* to the request before, which was a sync
TransactionsRetold(cl, data, txs) ==
    /\ txs # NoTransactions
    /\ last.op = "sync" /\ calls = cl /\ last.data = data /\ last.txs = txs

\* The whole handler, for the provider behaviour cl, the 'tokens' lists and
\* the 'result' lists of transactions it reports.
SyncWalletData(cl, data, txs) ==
    \E upd \in {TokenUpdates(cl, data)} :
    \E tokens1 \in {TokensAfter(walletTokens, upd)} :
    \E total \in {TotalValue(tokens1)} :
    \E failed \in {LoopFailures(Len(WalletOrder), cl, data)} :
    LET created == ~portfolio.exists
        p0 == GetOrCreatePortfolio(portfolio)
        p1 == IF ~created
              THEN UpdateExtrema(FillCheckpoints(p0, total), total, now)
              ELSE InitializeNew(p0, total, now)
        snapshotNamed == NameDefined("PortfolioSnapshot")
    IN  /\ snapshotNamed => Len(snapshots) < MaxSnapshots
        /\ walletTokens' = tokens1
        /\ \E rows \in {TransactionsAfter(transactions, cl, txs)} : transactions' = rows
        /\ portfolio' = SavePortfolio(p1, total, now)
        /\ snapshots' = IF snapshotNamed
                        THEN Append(snapshots, [total_value_usd |-> total, timestamp |-> now])
                        ELSE snapshots
        /\ riskMetrics' = IF snapshotNamed
                          THEN UpdateConcentration(GetOrCreateRiskMetrics(riskMetrics),
                                                   tokens1, total)
                          ELSE riskMetrics
        /\ calls' = cl
        /\ results' = [sent |-> TRUE,
                       wallets_synced |-> WalletsSynced(cl),
                       tokens_synced |-> TokensSynced(cl, data),
                       transactions_synced |-> TransactionsSynced(cl, txs),
                       failed_syncs |-> IF snapshotNamed THEN failed
                                        ELSE Append(failed, <<"Portfolio update", "-">>)]
        /\ last' = [op |-> "sync", created |-> created, first |-> ~results.sent,
                    data |-> data, txs |-> txs,
                    retold |-> TransactionsRetold(cl, data, txs)]
        /\ UNCHANGED <<now, inflight>>

----------------------------------------------------------------------------
(* PortfolioView.get *)

\* a view that also initialises the checkpoints and extrema of a record it created
OverviewPortfolioInitialising(p, total_value, t) ==
    IF p.exists THEN SavePortfolio(p, total_value, t)
    ELSE SavePortfolio(InitializeNew(GetOrCreatePortfolio(p), total_value, t), total_value, t)

\* what the overview does to the Portfolio row: get_or_create, assign the
\* fresh total, save
OverviewPortfolio(p, total_value, t) ==
    SavePortfolio(GetOrCreatePortfolio(p), total_value, t)

\* a test that lets every checkpoint that is not None through
ChangeTestedNotNone(checkpoint) == checkpoint # NULL

\* `checkpoint and checkpoint > 0`: None and 0 are falsy
ChangeTested(checkpoint) == checkpoint # NULL /\ checkpoint # 0 /\ checkpoint > 0

\* one *_change_pct of the response: the initial 0, or
\* ((total_value - checkpoint) / checkpoint) * 100, kept as the exact
\* quotient num / den (the code's Decimal quotient has 28 digits)
PerformanceChange(total_value, checkpoint) ==
    IF ChangeTested(checkpoint)
    THEN [num |-> (total_value - checkpoint) * 100, den |-> checkpoint]
    ELSE [num |-> 0, den |-> 1]

\* the 'performance' entry of the response, from the in-memory Portfolio p
Performance(p, total_value) ==
    [daily_change_pct |-> PerformanceChange(total_value, p.previous_day_value_usd),
     weekly_change_pct |-> PerformanceChange(total_value, p.previous_week_value_usd),
     monthly_change_pct |-> PerformanceChange(total_value, p.previous_month_value_usd)]

\* The whole handler.  A division by zero would raise inside the try, after
\* both rows are written, and the except clause would answer 500.
PortfolioViewGet ==
    LET total_value == TotalValue(walletTokens)
        performance == Performance(GetOrCreatePortfolio(portfolio), total_value)
    IN  /\ portfolio' = OverviewPortfolio(portfolio, total_value, now)
        /\ riskMetrics' = GetOrCreateRiskMetrics(riskMetrics)
        /\ last' = [op |-> "view", created |-> ~portfolio.exists, first |-> FALSE,
                    status |-> IF \E f \in DOMAIN performance : performance[f].den = 0
                               THEN 500 ELSE 200,
                    total_value_usd |-> total_value,
                    performance |-> performance]
        /\ UNCHANGED <<now, walletTokens, snapshots, calls, results, transactions, inflight>>

----------------------------------------------------------------------------
(* The environment and the specifications *)

\* A day passes.
Tick ==
    /\ now < MaxDay
    /\ now' = now + 1
    /\ last' = [op |-> "tick", created |-> FALSE, first |-> FALSE]
    /\ UNCHANGED <<walletTokens, portfolio, snapshots, riskMetrics, calls, results,
                   transactions, inflight>>

\* A sync during which every provider call succeeds.
Sync == \E data \in TokenListData : SyncWalletData(AllOk, data, NoTransactions)

\* A sync during which provider calls may fail.
SyncFaulty == \E cl \in FaultyCalls : SyncWalletData(cl, OneTokenLists, NoTransactions)

Init ==
    /\ now = 0
    /\ walletTokens = <<>>
    /\ portfolio = NoPortfolio
    /\ snapshots = <<>>
    /\ riskMetrics = NoRiskMetrics
    /\ calls = NoCalls
    /\ results = NoResponse
    /\ last = [op |-> "init", created |-> FALSE, first |-> FALSE]
    /\ transactions = {}
    /\ inflight = <<>>

Next == Sync \/ PortfolioViewGet \/ Tick

Spec == Init /\ [][Next]_vars

NextFaults == SyncFaulty \/ PortfolioViewGet

SpecFaults == Init /\ [][NextFaults]_vars

\* The USD values of the one position reported to the overview specification.
OverviewValues == {0, 1, 2, 3}

OverviewData ==
    {TokenLists([w \in Wallets |-> IF w = "w1" THEN [sym \in {"BTC"} |-> v] ELSE <<>>]) :
        v \in OverviewValues}

\* A sync that is reported one position of wallet w1.
SyncValues == \E data \in OverviewData : SyncWalletData(AllOk, data, NoTransactions)

NextOverview == SyncValues \/ PortfolioViewGet \/ Tick

SpecOverview == Init /\ [][NextOverview]_vars

\* Token lists with and without prices: wallet w1 holds up to one position
\* per symbol, of 10 raw units with 0 or 1 decimals; the price is a number,
\* null, or not there.
RawBalances == {10}

Decimals == {0, 1}

UsdPrices == {Absent, NULL, 1}

PriceInfos(symbol) ==
    [symbol : {symbol}, balance : RawBalances, decimals : Decimals, usd_price : UsdPrices]

PriceLists ==
    {<<>>} \cup {<<a>> : a \in PriceInfos("BTC") \cup PriceInfos("ETH")}
           \cup {<<a, b>> : a \in PriceInfos("BTC"), b \in PriceInfos("ETH")}

PriceData == {[w \in Wallets |-> IF w = "w1" THEN l ELSE <<>>] : l \in PriceLists}

\* A sync whose token lists may lack prices.
SyncPrices == \E data \in PriceData : SyncWalletData(AllOk, data, NoTransactions)

SpecPrices == Init /\ [][SyncPrices]_vars

\* Transaction lists: wallet w1 is reported up to one transaction, whose
\* addresses come in either case and whose timestamp is an integer or a date.
TxInfos ==
    [hash : {"h1", "h2"}, from_address : {"0xab", "0xAB", "0xef"},
     to_address : {"0xab", "0xAB", "0xef"},
     block_timestamp : {"1700000000", "2023-11-14T22:13:20.000Z"}]

TxData ==
    {[w \in Wallets |-> IF w = "w1" THEN l ELSE <<>>] :
        l \in {<<>>} \cup {<<tx>> : tx \in TxInfos}}

\* A sync that is reported transactions and no token.
SyncTransactions == \E txs \in TxData : SyncWalletData(AllOk, EmptyLists, txs)

SpecTransactions == Init /\ [][SyncTransactions]_vars

\* Transaction lists for repeated syncs: wallet w1 is reported up to two
\* transactions, which may have the same hash, and wallet w2 up to one.
ResyncInfos ==
    [hash : {"h1", "h2"}, from_address : {"0xab", "0xef"}, to_address : {"0xef"},
     block_timestamp : {"1700000000", "2023-11-14T22:13:20.000Z"}]

ResyncLists ==
    {<<>>} \cup {<<tx>> : tx \in ResyncInfos}
           \cup {<<tx1, tx2>> : tx1 \in ResyncInfos, tx2 \in ResyncInfos}

ResyncData ==
    {[w \in Wallets |-> IF w = "w1" THEN l1 ELSE l2] :
        l1 \in ResyncLists,
        l2 \in {<<>>, <<[hash |-> "h1", from_address |-> "0xcd", to_address |-> "0xef",
                         block_timestamp |-> "1700000000"]>>}}

\* A sync that is reported transactions, possibly those of the sync before.
Resync == \E txs \in ResyncData : SyncWalletData(AllOk, EmptyLists, txs)

SpecResync == Init /\ [][Resync]_vars

----------------------------------------------------------------------------
(* Two sync requests of the same user handled concurrently.  The view      *)
(* holds no lock and opens no transaction, so the requests interleave       *)
(* between their database statements.                                       *)

Requests == {"r1", "r2"}

\* a request that has not reached the portfolio update yet
Started(data) ==
    [pc |-> "get", data |-> data, portfolio |-> NoPortfolio, created |-> FALSE,
     total_value |-> 0, overwrote |-> FALSE, risk_metrics |-> NoRiskMetrics,
     failed_syncs |-> <<>>]

\* the request with its locals changed
With(r, locals) == [q \in DOMAIN inflight \cup {r} |-> IF q = r THEN locals ELSE inflight[q]]

\* lines 199-277: the per-wallet loop of request r, reported one position
RaceLoop(r, data) ==
    /\ r \notin DOMAIN inflight
    /\ walletTokens' = TokensAfter(walletTokens, TokenUpdates(AllOk, data))
    /\ inflight' = With(r, Started(data))
    /\ UNCHANGED <<now, portfolio, snapshots, riskMetrics, calls, results, last,
                   transactions>>

\* line 281: Portfolio.objects.get_or_create
RaceGet(r) ==
    /\ r \in DOMAIN inflight
    /\ inflight[r].pc = "get"
    /\ portfolio' = GetOrCreatePortfolio(portfolio)
    /\ inflight' = With(r, [inflight[r] EXCEPT !.pc = "read",
                                              !.portfolio = GetOrCreatePortfolio(portfolio),
                                              !.created = ~portfolio.exists])
    /\ UNCHANGED <<now, walletTokens, snapshots, riskMetrics, calls, results, last,
                   transactions>>

\* lines 284-316: the query of the positions and the assignments to the
\* in-memory Portfolio
RaceRead(r) ==
    /\ r \in DOMAIN inflight
    /\ inflight[r].pc = "read"
    /\ LET total == TotalValue(walletTokens)
           p0 == inflight[r].portfolio
           p1 == IF ~inflight[r].created
                 THEN UpdateExtrema(FillCheckpoints(p0, total), total, now)
                 ELSE InitializeNew(p0, total, now)
       IN  inflight' = With(r, [inflight[r] EXCEPT !.pc = "save",
                                                  !.portfolio = [p1 EXCEPT !.total_value_usd = total],
                                                  !.total_value = total])
    /\ UNCHANGED <<now, walletTokens, portfolio, snapshots, riskMetrics, calls, results,
                   last, transactions>>

\* the stored row has an extremum beyond the one of the in-memory object p
Overwrites(p) ==
    \/ portfolio.all_time_high_usd # NULL /\ portfolio.all_time_high_usd > p.all_time_high_usd
    \/ portfolio.all_time_low_usd # NULL /\ portfolio.all_time_low_usd < p.all_time_low_usd

\* line 317: portfolio.save() writes every column of the in-memory object
RaceSave(r) ==
    /\ r \in DOMAIN inflight
    /\ inflight[r].pc = "save"
    /\ portfolio' = SavePortfolio(inflight[r].portfolio, inflight[r].total_value, now)
    /\ inflight' = With(r, [inflight[r] EXCEPT !.pc = "snapshot",
                                              !.overwrote = Overwrites(inflight[r].portfolio)])
    /\ UNCHANGED <<now, walletTokens, snapshots, riskMetrics, calls, results, last,
                   transactions>>

\* lines 320-350, a statement at a step: the snapshot (320) or the except
\* clause after its NameError and the response (348-359); then
\* RiskMetrics.objects.get_or_create (326), the concentration assigned to
\* the in-memory object (329-343), and risk_metrics.save() (346), which
\* writes every column
RaceSnapshot(r) ==
    /\ r \in DOMAIN inflight
    /\ inflight[r].pc \in {"snapshot", "risk_get", "risk_read", "risk_save"}
    /\ LET pc == inflight[r].pc
           snapshotNamed == NameDefined("PortfolioSnapshot")
           total == inflight[r].total_value
           failed == LoopFailures(Len(WalletOrder), AllOk, inflight[r].data)
       IN  /\ snapshots' = IF pc = "snapshot" /\ snapshotNamed
                           THEN Append(snapshots, [total_value_usd |-> total, timestamp |-> now])
                           ELSE snapshots
           /\ riskMetrics' = IF pc = "risk_get" THEN GetOrCreateRiskMetrics(riskMetrics)
                             ELSE IF pc = "risk_save" THEN inflight[r].risk_metrics
                             ELSE riskMetrics
           /\ inflight' = With(r,
                  IF pc = "snapshot"
                  THEN IF snapshotNamed
                       THEN [inflight[r] EXCEPT !.pc = "risk_get"]
                       ELSE [inflight[r] EXCEPT
                                !.pc = "done",
                                !.failed_syncs = Append(failed, <<"Portfolio update", "-">>)]
                  ELSE IF pc = "risk_get"
                  THEN [inflight[r] EXCEPT !.pc = "risk_read",
                                           !.risk_metrics = GetOrCreateRiskMetrics(riskMetrics)]
                  ELSE IF pc = "risk_read"
                  THEN [inflight[r] EXCEPT
                           !.pc = "risk_save",
                           !.risk_metrics = UpdateConcentration(@, walletTokens, total)]
                  ELSE [inflight[r] EXCEPT !.pc = "done", !.failed_syncs = failed])
    /\ UNCHANGED <<now, walletTokens, portfolio, calls, results, last, transactions>>

NextRace ==
    \E r \in Requests :
        \/ \E data \in OverviewData : RaceLoop(r, data)
        \/ RaceGet(r)
        \/ RaceRead(r)
        \/ RaceSave(r)
        \/ RaceSnapshot(r)

SpecRace == Init /\ [][NextRace]_vars

----------------------------------------------------------------------------
(* RiskAnalysisService: what a recomputation would store *)

\* timedelta(days=90)
LookbackDays == 90

\* snapshots.count() < 7
MinSnapshots == 7

\* len(returns) < 5
MinReturns == 5

\* float nan
NaN == -2000000

\* a window that leaves out the snapshot taken exactly 90 days ago
WindowExclusive(snaps, t) ==
    LET InWindow(sn) == sn.timestamp > t - LookbackDays
    IN  SelectSeq(snaps, InWindow)

\* timestamp__gte=ninety_days_ago, order_by('timestamp'): rows are inserted
\* with the clock's time, so insertion order is timestamp order
Window(snaps, t) ==
    LET InWindow(sn) == sn.timestamp >= t - LookbackDays
    IN  SelectSeq(snaps, InWindow)

\* values = [float(snapshot.total_value_usd) for snapshot in snapshots]
ValuesOf(snaps) == [i \in 1..Len(snaps) |-> snaps[i].total_value_usd]

\* len(returns): one return per adjacent pair whose earlier value is > 0
ReturnCount(values) == Cardinality({i \in 2..Len(values) : values[i - 1] > 0})

\* both early returns passed
EnoughHistory(snaps, t) ==
    /\ Len(Window(snaps, t)) >= MinSnapshots
    /\ ReturnCount(ValuesOf(Window(snaps, t))) >= MinReturns

\* np.maximum.accumulate(values)[i]
RollingMax(values, i) == MaxOf({values[j] : j \in 1..i})

\* 100 * np.max((rolling_max - values) / rolling_max), as the column stores
\* it; 0/0 is nan and np.max propagates it
MaxDrawdown(values) ==
    IF \E i \in 1..Len(values) : RollingMax(values, i) = 0 THEN NaN
    ELSE MaxOf({RoundHalfEven(10000 * (RollingMax(values, i) - values[i]),
                              RollingMax(values, i)) : i \in 1..Len(values)})

----------------------------------------------------------------------------
(* The admin site: PortfolioSnapshot is registered with a ModelAdmin *)

\* the values an administrator enters
AdminValues == {1, 2}

\* the add form of PortfolioSnapshotAdmin: timestamp defaults to timezone.now
AdminAddSnapshot ==
    /\ portfolio.exists
    /\ Len(snapshots) < MaxSnapshots
    /\ \E v \in AdminValues :
          snapshots' = Append(snapshots, [total_value_usd |-> v, timestamp |-> now])
    /\ last' = [op |-> "admin", created |-> FALSE, first |-> FALSE]
    /\ UNCHANGED <<now, walletTokens, portfolio, riskMetrics, calls, results,
                   transactions, inflight>>

\* A sync during which the provider reports no token.
SyncEmpty == SyncWalletData(AllOk, EmptyLists, NoTransactions)

NextAdmin == AdminAddSnapshot \/ SyncEmpty \/ PortfolioViewGet

SpecAdmin == Init /\ [][NextAdmin]_vars

----------------------------------------------------------------------------
(* RiskAnalysisService: the arithmetic.  Floats are modelled by exact        *)
(* rationals; a stored figure is the rational rounded to the column's two    *)
(* decimal places, in hundredths.                                            *)

RECURSIVE ProductOf(_)
ProductOf(S) ==
    IF S = {} THEN 1
    ELSE LET x == CHOOSE y \in S : TRUE IN x * ProductOf(S \ {x})

\* a common denominator of the returns: every return of the loop is a whole
\* number of 1/ReturnDenominator(values)
ReturnDenominator(values) ==
    ProductOf({values[i] : i \in 1..Len(values)} \ {0})

\* the loop that fills `returns`: in order, one entry per adjacent pair
\* whose earlier value is > 0, here as numerators over ReturnDenominator
Returns(values) ==
    LET D == ReturnDenominator(values)
        pairs == [i \in 1..(Len(values) - 1) |-> i + 1]
        Kept(i) == values[i - 1] > 0
        kept == SelectSeq(pairs, Kept)
    IN  [k \in 1..Len(kept) |->
            (values[kept[k]] - values[kept[k] - 1]) * (D \div values[kept[k] - 1])]

\* returns_array[-30:] if len(returns_array) >= 30 else returns_array
Last30(returns) ==
    IF Len(returns) >= 30 THEN SubSeq(returns, Len(returns) - 29, Len(returns))
    ELSE returns

RECURSIVE LeqFrac(_, _, _, _)
\* a/b <= c/d for a, c >= 0 and b, d > 0, by the Euclidean expansion of the
\* two fractions
LeqFrac(a, b, c, d) ==
    IF a \div b # c \div d THEN a \div b < c \div d
    ELSE IF a % b = 0 THEN TRUE
    ELSE IF c % d = 0 THEN FALSE
    ELSE LeqFrac(d, c % d, b, a % b)

RECURSIVE FloorRootBetween(_, _, _, _, _)
\* the largest k in lo..(hi - 1) with k * k * v <= u * w
FloorRootBetween(u, v, w, lo, hi) ==
    IF hi - lo <= 1 THEN lo
    ELSE LET mid == (lo + hi) \div 2
         IN  IF LeqFrac(mid * mid, u, w, v)
             THEN FloorRootBetween(u, v, w, mid, hi)
             ELSE FloorRootBetween(u, v, w, lo, mid)

\* sqrt(u * w / v) rounded to an integer, ties to even (u, v, w > 0)
RoundRoot(u, v, w) ==
    LET k == FloorRootBetween(u, v, w, 0, 23170)
        odd == (2 * k + 1) * (2 * k + 1)
        below == LeqFrac(odd, 4 * u, w, v)      \* k + 1/2 <= the root
        above == LeqFrac(w, v, odd, 4 * u)      \* the root <= k + 1/2
    IN  IF below /\ above THEN (IF k % 2 = 0 THEN k ELSE k + 1)
        ELSE IF below THEN k + 1 ELSE k

\* n * sum(x^2) - sum(x)^2: the population variance of the returns is this
\* over (n * D)^2
VarianceNumerator(returns) ==
    LET n == Len(returns)
        idx == 1..n
        sq == [i \in idx |-> returns[i] * returns[i]]
    IN  n * SumOver(sq, idx) - SumOver(returns, idx) * SumOver(returns, idx)

\* np.std(returns) * 100
Volatility(returns, D) ==
    LET N == VarianceNumerator(returns)
        M == (Len(returns) * D) * (Len(returns) * D)
    IN  IF N = 0 THEN 0 ELSE RoundRoot(N, M, 100000000)

\* (mean_return - 0.02 / 365) / np.std(returns) * np.sqrt(365), and 0 when
\* the standard deviation is 0
SharpeRatio(returns, D) ==
    LET N == VarianceNumerator(returns)
        excess == 18250 * SumOver(returns, 1..Len(returns)) - Len(returns) * D
        P == 2 * (IF excess < 0 THEN -excess ELSE excess)
        magnitude == IF P = 0 THEN 0 ELSE RoundRoot(P, 365 * N, P)
    IN  IF N = 0 THEN 0
        ELSE IF excess < 0 THEN -magnitude ELSE magnitude

\* the k-th smallest entry of a sequence
Smallest(seq, k) ==
    CHOOSE x \in {seq[i] : i \in 1..Len(seq)} :
        /\ Cardinality({i \in 1..Len(seq) : seq[i] < x}) < k
        /\ Cardinality({i \in 1..Len(seq) : seq[i] <= x}) >= k

\* abs(np.percentile(returns, 5) * 100): linear interpolation between the
\* order statistics around position 0.05 * (n - 1)
ValueAtRisk(returns, D) ==
    LET n == Len(returns)
        i == (n - 1) \div 20
        f == (n - 1) % 20
        lower == Smallest(returns, i + 1)
        upper == IF f = 0 THEN lower ELSE Smallest(returns, i + 2)
        num == 20 * lower + (upper - lower) * f
    IN  RoundHalfEven(500 * (IF num < 0 THEN -num ELSE num), D)

----------------------------------------------------------------------------
(* RiskAnalysisService.calculate_portfolio_risk_metrics *)

\* the primary key of the user's Portfolio row
PortfolioId == "p1"

\* what a caller can pass as portfolio_id: the key of the user's row, a key
\* no row has, a value that is no key at all
PortfolioIds == {"p1", "p2", "abc"}

\* the classes the exceptions raised inside the try are instances of
Bases == [DoesNotExist |-> {"DoesNotExist", "ObjectDoesNotExist", "Exception"},
          ValueError |-> {"ValueError", "Exception"},
          ValidationError |-> {"ValidationError", "Exception"}]

\* the except clauses without the catch-all
ExceptClausesNoCatchAll == {"DoesNotExist"}

\* the except clauses of the method: Portfolio.DoesNotExist and Exception
ExceptClauses == {"DoesNotExist", "Exception"}

\* an exception of class exc is caught by one of the clauses
Caught(exc) == Bases[exc] \cap ExceptClauses # {}

\* Portfolio.objects.get(id=portfolio_id): "none" when the row is found
GetPortfolio(p, portfolio_id) ==
    IF portfolio_id \notin {"p1", "p2"} THEN "ValueError"
    ELSE IF ~(p.exists /\ portfolio_id = PortfolioId) THEN "DoesNotExist"
    ELSE "none"

\* a count test one snapshot too lenient
TooFewSnapshotsOffByOne(window) == Len(window) < MinSnapshots - 1

\* snapshots.count() < 7
TooFewSnapshots(window) == Len(window) < MinSnapshots

\* a count test one return too lenient
TooFewReturnsOffByOne(returns) == Len(returns) < MinReturns - 1

\* len(returns) < 5
TooFewReturns(returns) == Len(returns) < MinReturns

\* the five figures computed from the values of the window
RiskFigures(values) ==
    LET returns == Returns(values)
        D == ReturnDenominator(values)
    IN  [volatility_30d |-> Volatility(Last30(returns), D),
         volatility_90d |-> Volatility(returns, D),
         max_drawdown |-> MaxDrawdown(values),
         sharpe_ratio |-> SharpeRatio(returns, D),
         value_at_risk |-> ValueAtRisk(returns, D)]

\* the five assignments before risk_metrics.save()
WithFigures(r, fig) ==
    [r EXCEPT !.volatility_30d = fig.volatility_30d,
              !.volatility_90d = fig.volatility_90d,
              !.max_drawdown = fig.max_drawdown,
              !.sharpe_ratio = fig.sharpe_ratio,
              !.value_at_risk = fig.value_at_risk]

\* What the body of the try does: the RiskMetrics row it leaves, the pair it
\* returns or the exception it raises (exc), and its locals.  A nan figure
\* reaches save(): whether the DecimalField and the database accept it
\* depends on the Django version and the backend (nan_saved).
RiskBody(p, r, snaps, t, portfolio_id, nan_saved) ==
    LET window == Window(snaps, t)
        values == ValuesOf(window)
        r0 == GetOrCreateRiskMetrics(r)
        Out(row, ok, msg, exc, vals, rets) ==
            [risk |-> row, success |-> ok, message |-> msg, exc |-> exc,
             values |-> vals, returns |-> rets]
    IN  IF GetPortfolio(p, portfolio_id) # "none"
        THEN Out(r, FALSE, "", GetPortfolio(p, portfolio_id), <<>>, <<>>)
        ELSE IF TooFewSnapshots(window)
        THEN Out(r0, FALSE, "Not enough historical data for risk calculations",
                 "none", <<>>, <<>>)
        ELSE IF TooFewReturns(Returns(values))
        THEN Out(r0, FALSE, "Not enough return data for risk calculations",
                 "none", values, Returns(values))
        ELSE IF RiskFigures(values).max_drawdown = NaN /\ ~nan_saved
        THEN Out(r0, FALSE, "", "ValidationError", values, Returns(values))
        ELSE Out(WithFigures(r0, RiskFigures(values)), TRUE,
                 "Risk metrics updated successfully", "none", values, Returns(values))

\* The whole method: the body and its except clauses.
CalculatePortfolioRiskMetrics(portfolio_id, nan_saved) ==
    \E out \in {RiskBody(portfolio, riskMetrics, snapshots, now, portfolio_id, nan_saved)} :
        /\ riskMetrics' = out.risk
        /\ last' = [op |-> "risk", created |-> out.risk.exists /\ ~riskMetrics.exists,
                    first |-> FALSE, portfolio_id |-> portfolio_id, at |-> now,
                    raised |-> out.exc # "none" /\ ~Caught(out.exc),
                    success |-> out.success,
                    message |-> IF out.exc = "none" THEN out.message
                                ELSE IF ~Caught(out.exc) THEN ""
                                ELSE IF out.exc = "DoesNotExist" THEN "Portfolio not found"
                                ELSE "Error calculating risk metrics",
                    values |-> out.values, returns |-> out.returns,
                    rerun |-> last.op = "risk" /\ last.success /\ last.at < now]
        /\ UNCHANGED <<now, walletTokens, portfolio, snapshots, calls, results,
                       transactions, inflight>>

RiskCalculation ==
    \E portfolio_id \in PortfolioIds : \E nan_saved \in BOOLEAN :
        CalculatePortfolioRiskMetrics(portfolio_id, nan_saved)

\* The values of a stored history.
HistoryValues == {0, 1, 2}

\* A history starts with at most MaxHead values of any kind and goes on with
\* one value repeated; it has at most MaxHistory snapshots.
MaxHead == 2

MaxHistory == 8

\* The clock of the risk specification stops at MaxRiskDay.
MaxRiskDay == 91

Histories ==
    {h \in {head \o [i \in 1..m |-> c] :
                head \in UNION {[1..k -> HistoryValues] : k \in 0..MaxHead},
                c \in HistoryValues, m \in 0..MaxHistory} :
        Len(h) >= 1 /\ Len(h) <= MaxHistory}

\* The rows of a history: the first snapshot was taken on day 0, the others
\* on day 1.
SnapshotsOf(h) ==
    [i \in 1..Len(h) |-> [total_value_usd |-> h[i],
                          timestamp |-> IF i = 1 THEN 0 ELSE 1]]

\* The Portfolio row a first cycle without tokens left on day 0.
FirstCyclePortfolio ==
    SavePortfolio(InitializeNew(GetOrCreatePortfolio(NoPortfolio), 0, 0), 0, 0)

\* Days pass until the oldest snapshot is about to leave the lookback
\* window, then one by one.
DaysPass ==
    /\ now < MaxRiskDay
    /\ now' = IF now < LookbackDays - 1 THEN LookbackDays - 1 ELSE now + 1
    /\ UNCHANGED <<walletTokens, portfolio, snapshots, riskMetrics, calls, results, last,
                   transactions, inflight>>

\* Day 1: a first cycle has run on day 0, snapshots have been entered since.
InitRisk ==
    /\ now = 1
    /\ walletTokens = <<>>
    /\ portfolio = FirstCyclePortfolio
    /\ snapshots \in {SnapshotsOf(h) : h \in Histories}
    /\ riskMetrics = NoRiskMetrics
    /\ calls = AllOk
    /\ results = [sent |-> TRUE, wallets_synced |-> Len(WalletOrder),
                  tokens_synced |-> 0, transactions_synced |-> 0,
                  failed_syncs |-> <<<<"Portfolio update", "-">>>>]
    /\ last = [op |-> "admin", created |-> FALSE, first |-> FALSE]
    /\ transactions = {}
    /\ inflight = <<>>

NextRisk == RiskCalculation \/ DaysPass

SpecRisk == InitRisk /\ [][NextRisk]_vars

----------------------------------------------------------------------------
(* A sync request and a risk calculation for the same portfolio, handled   *)
(* concurrently.  Neither holds a lock or opens a transaction.              *)

\* the calculation, as the key of its locals
Calculation == "calc"

\* lines 15-18: Portfolio.objects.get and RiskMetrics.objects.get_or_create
CalcGet ==
    /\ Calculation \notin DOMAIN inflight
    /\ GetPortfolio(portfolio, PortfolioId) = "none"
    /\ riskMetrics' = GetOrCreateRiskMetrics(riskMetrics)
    /\ inflight' = With(Calculation, [pc |-> "read", success |-> FALSE,
                                      risk_metrics |-> GetOrCreateRiskMetrics(riskMetrics)])
    /\ UNCHANGED <<now, walletTokens, portfolio, snapshots, calls, results, last,
                   transactions>>

\* lines 21-70: the query of the window, the figures and their assignment to
\* the in-memory object; the returns of lines 29 and 41, and the except
\* clause after a save() that rejects a nan
CalcRead(nan_saved) ==
    /\ Calculation \in DOMAIN inflight
    /\ inflight[Calculation].pc = "read"
    /\ \E out \in {RiskBody(portfolio, inflight[Calculation].risk_metrics, snapshots, now,
                            PortfolioId, nan_saved)} :
          inflight' = With(Calculation,
              [pc |-> IF out.success THEN "save" ELSE "done",
               success |-> FALSE, risk_metrics |-> out.risk])
    /\ UNCHANGED <<now, walletTokens, portfolio, snapshots, riskMetrics, calls, results,
                   last, transactions>>

\* lines 71-73: risk_metrics.save() writes every column; True is returned
CalcSave ==
    /\ Calculation \in DOMAIN inflight
    /\ inflight[Calculation].pc = "save"
    /\ riskMetrics' = inflight[Calculation].risk_metrics
    /\ inflight' = With(Calculation, [inflight[Calculation] EXCEPT !.pc = "done",
                                                                  !.success = TRUE])
    /\ UNCHANGED <<now, walletTokens, portfolio, snapshots, calls, results, last,
                   transactions>>

\* The histories the concurrent calculation can find.
RaceHistories == {h \in Histories : Len(h) >= MinSnapshots}

\* Day 1, as in InitRisk, with enough snapshots for a calculation.
InitRiskRace ==
    /\ now = 1
    /\ walletTokens = <<>>
    /\ portfolio = FirstCyclePortfolio
    /\ snapshots \in {SnapshotsOf(h) : h \in RaceHistories}
    /\ riskMetrics = NoRiskMetrics
    /\ calls = AllOk
    /\ results = [sent |-> TRUE, wallets_synced |-> Len(WalletOrder),
                  tokens_synced |-> 0, transactions_synced |-> 0,
                  failed_syncs |-> <<<<"Portfolio update", "-">>>>]
    /\ last = [op |-> "admin", created |-> FALSE, first |-> FALSE]
    /\ transactions = {}
    /\ inflight = <<>>

NextRiskRace ==
    \/ \E data \in OverviewData : RaceLoop("r1", data)
    \/ RaceGet("r1")
    \/ RaceRead("r1")
    \/ RaceSave("r1")
    \/ RaceSnapshot("r1")
    \/ CalcGet
    \/ \E nan_saved \in BOOLEAN : CalcRead(nan_saved)
    \/ CalcSave

SpecRiskRace == InitRiskRace /\ [][NextRiskRace]_vars

----------------------------------------------------------------------------
(* Properties *)

Range(seq) == {seq[i] : i \in 1..Len(seq)}

CheckpointFields == {"previous_day_value_usd", "previous_week_value_usd",
                     "previous_month_value_usd"}

ExtremaFields == {"all_time_high_usd", "all_time_high_date",
                  "all_time_low_usd", "all_time_low_date"}

PortfolioFailure == <<"Portfolio update", "-">>

\* C1: the stored all-time-high is >= and the stored all-time-low is <= the
\* value of every PortfolioSnapshot recorded for the portfolio.
C1_ExtremaBoundSnapshots ==
    \A i \in 1..Len(snapshots) :
        /\ portfolio.all_time_high_usd # NULL
        /\ portfolio.all_time_high_usd >= snapshots[i].total_value_usd
        /\ portfolio.all_time_low_usd # NULL
        /\ portfolio.all_time_low_usd <= snapshots[i].total_value_usd

\* C1: a reconciliation cycle has recorded a snapshot (the case C1 is about).
C1_SnapshotRecorded == Len(snapshots) > 0

\* C2 as claimed: a checkpoint that has been set, to whatever value, is not
\* changed by any later step.
C2_CheckpointSetOnce ==
    [][\A f \in CheckpointFields :
          (portfolio.exists /\ portfolio[f] # NULL) => portfolio'[f] = portfolio[f]]_vars

\* C2 as amended: a checkpoint that holds a value other than 0 is never
\* changed; a reconciliation cycle that finds a checkpoint at 0 or unset
\* assigns it the cycle's total.
C2_NonZeroCheckpointStable ==
    [][\A f \in CheckpointFields :
          /\ (portfolio.exists /\ portfolio[f] # NULL /\ portfolio[f] # 0)
                => portfolio'[f] = portfolio[f]
          /\ (last'.op = "sync" /\ (portfolio[f] = NULL \/ portfolio[f] = 0))
                => portfolio'[f] = portfolio'.total_value_usd]_vars

\* C2: a later cycle has computed a total that differs from a checkpoint set
\* before it, and the checkpoint is still there.
C2_LaterCycleKeptCheckpoint ==
    /\ last.op = "sync" /\ ~last.created
    /\ portfolio.previous_day_value_usd # NULL
    /\ portfolio.previous_day_value_usd # 0
    /\ portfolio.total_value_usd # portfolio.previous_day_value_usd

\* C3: after a cycle that leaves at least 7 snapshots with at least 5 returns
\* in the 90-day window, the stored risk figures are those recomputed from
\* that history.
C3_RiskRecomputedBySync ==
    (last.op = "sync" /\ EnoughHistory(snapshots, now)) =>
        /\ riskMetrics.exists
        /\ riskMetrics.volatility_30d # NULL
        /\ riskMetrics.volatility_90d # NULL
        /\ riskMetrics.sharpe_ratio # NULL
        /\ riskMetrics.value_at_risk # NULL
        /\ riskMetrics.max_drawdown = MaxDrawdown(ValuesOf(Window(snapshots, now)))

\* C4: when a step of the portfolio update failed and was recorded, the later
\* steps were still executed: the snapshot is appended, the RiskMetrics row
\* exists and holds the concentration of this cycle.
C4_LaterStepsRun ==
    (last.op = "sync" /\ PortfolioFailure \in Range(results.failed_syncs)) =>
        /\ riskMetrics.exists
        /\ (DOMAIN walletTokens # {} /\ portfolio.total_value_usd > 0) =>
              riskMetrics.concentration_risk =
                  ConcentrationRisk(walletTokens, portfolio.total_value_usd)

\* C5: every provider call of the last sync that did not succeed has its
\* entry in failed_syncs.
C5_EveryFailedCallRecorded ==
    last.op = "sync" =>
        \A w \in Wallets : \A s \in Sources :
            calls[w][s] # "ok" => <<s, w>> \in Range(results.failed_syncs)

C7_EqualTotalCycle ==
    [][(last'.op = "sync" /\ results.sent
            /\ portfolio'.total_value_usd = portfolio.total_value_usd) =>
          /\ \A f \in CheckpointFields \cup ExtremaFields : portfolio'[f] = portfolio[f]
          /\ Len(snapshots') = Len(snapshots) + 1
          /\ SubSeq(snapshots', 1, Len(snapshots)) = snapshots]_vars

\* C7, the part about the aggregate alone: such a cycle leaves the extrema
\* and the checkpoints unchanged.
C7_EqualTotalKeepsAggregate ==
    [][(last'.op = "sync" /\ results.sent
            /\ portfolio'.total_value_usd = portfolio.total_value_usd) =>
          \A f \in CheckpointFields \cup ExtremaFields : portfolio'[f] = portfolio[f]]_vars

\* C8: after the first cycle ever run, the checkpoints and both extrema
\* equal that cycle's total and both extrema dates are today, whether or
\* not the row existed before.
C8_FirstCycleInitialises ==
    (last.op = "sync" /\ last.first) =>
        /\ \A f \in CheckpointFields : portfolio[f] = portfolio.total_value_usd
        /\ portfolio.all_time_high_usd = portfolio.total_value_usd
        /\ portfolio.all_time_low_usd = portfolio.total_value_usd
        /\ portfolio.all_time_high_date = now
        /\ portfolio.all_time_low_date = now

\* C8: the first cycle has run on a row the overview had created on an
\* earlier day, with a total above 0.
C8_FirstCycleOnExistingRow ==
    /\ last.op = "sync" /\ last.first /\ ~last.created
    /\ portfolio.total_value_usd > 0
    /\ now > 0

C10_ConcentrationStored ==
    (last.op = "sync" /\ portfolio.total_value_usd > 0 /\ DOMAIN walletTokens # {}) =>
        /\ riskMetrics.exists
        /\ riskMetrics.concentration_risk =
               ConcentrationRisk(walletTokens, portfolio.total_value_usd)

RiskFigureFields == {"volatility_30d", "volatility_90d", "max_drawdown",
                     "sharpe_ratio", "value_at_risk"}

\* the positions of the snapshots inside the lookback window at time t
InLookback(t) ==
    {i \in 1..Len(snapshots) : snapshots[i].timestamp >= t - LookbackDays}

\* C11: a calculation for the user's portfolio that finds fewer than 7
\* snapshots inside the 90-day window returns the insufficient-data failure
\* and leaves the five stored figures as they were.
C11_TooFewSnapshotsKeepsFigures ==
    [][(now' = now /\ last'.op = "risk" /\ last'.portfolio_id = PortfolioId
            /\ portfolio.exists
            /\ Cardinality(InLookback(now)) < MinSnapshots) =>
          /\ ~last'.success /\ ~last'.raised
          /\ last'.message = "Not enough historical data for risk calculations"
          /\ \A f \in RiskFigureFields : riskMetrics'[f] = riskMetrics[f]]_vars

\* C11: a calculation has failed for lack of snapshots on a portfolio whose
\* figures an earlier calculation had stored.
C11_FailedWithStoredFigures ==
    /\ last.op = "risk" /\ last.portfolio_id = PortfolioId
    /\ ~last.success
    /\ last.message = "Not enough historical data for risk calculations"
    /\ riskMetrics.volatility_90d # NULL
    /\ riskMetrics.max_drawdown # NULL

\* C12: every call returns a pair and raises nothing; a call with an id that
\* no Portfolio row has returns a failure and leaves the RiskMetrics row, or
\* its absence, as it was.
C12_NeverRaises ==
    [][(now' = now /\ last'.op = "risk") =>
          /\ ~last'.raised
          /\ last'.message # ""
          /\ (~portfolio.exists \/ last'.portfolio_id # PortfolioId) =>
                (~last'.success /\ riskMetrics' = riskMetrics)]_vars

\* C12: a call for an id without a row has answered "Portfolio not found"
\* and there is still no RiskMetrics row.
C12_MissingPortfolioAnswered ==
    /\ last.op = "risk" /\ last.portfolio_id = "p2"
    /\ ~last.success /\ last.message = "Portfolio not found"
    /\ ~riskMetrics.exists

\* C13 as claimed: two successful calculations on the user's portfolio, at
\* whatever times, with the same snapshots stored, store the same figures.
C13_SameHistorySameFigures ==
    [][(now' = now /\ last.op = "risk" /\ last.success
            /\ last'.op = "risk" /\ last'.success /\ snapshots' = snapshots) =>
          \A f \in RiskFigureFields : riskMetrics'[f] = riskMetrics[f]]_vars

\* C13 as amended: two successful calculations with the same snapshots
\* stored, and the same of them inside the lookback window at both times,
\* store the same figures.
C13_SameWindowSameFigures ==
    [][(now' = now /\ last.op = "risk" /\ last.success
            /\ last'.op = "risk" /\ last'.success /\ snapshots' = snapshots
            /\ InLookback(last.at) = InLookback(now)) =>
          \A f \in RiskFigureFields : riskMetrics'[f] = riskMetrics[f]]_vars

\* C13: a calculation has succeeded again, later than the successful one
\* before it, with all the snapshots still inside the window.
C13_RerunLater ==
    /\ last.op = "risk" /\ last.success /\ last.rerun
    /\ Len(last.values) = Len(snapshots)
    /\ riskMetrics.volatility_90d > 0

\* the drawdown figure the spec gives for a series: 100 times the largest
\* (runningMax - V) / runningMax over the positions whose running maximum
\* is above 0
GuardedMaxDrawdown(values) ==
    MaxOf({RoundHalfEven(10000 * (RollingMax(values, i) - values[i]),
                         RollingMax(values, i)) :
              i \in {j \in 1..Len(values) : RollingMax(values, j) > 0}})

\* C17: a calculation over a window that starts with a zero value and yields
\* at least 5 returns succeeds and stores the drawdown taken over the
\* positions with a positive running maximum.
C17_ZeroRunningMaxContributesZero ==
    (last.op = "risk" /\ Len(last.values) >= MinSnapshots
        /\ last.values[1] = 0
        /\ Cardinality({i \in 2..Len(last.values) : last.values[i - 1] > 0}) >= MinReturns) =>
        /\ last.success
        /\ riskMetrics.max_drawdown = GuardedMaxDrawdown(last.values)

\* the position in the window of the pair that yields the k-th return
PairOfReturn(values, k) ==
    CHOOSE i \in 2..Len(values) :
        /\ values[i - 1] > 0
        /\ Cardinality({j \in 2..i : values[j - 1] > 0}) = k

\* C18: the returns are, in order, (v[i] - v[i-1]) / v[i-1] for the pairs
\* whose earlier value is above 0 and nothing for the other pairs; there are
\* at most n - 1 of them; with fewer than 5 the calculation reports the
\* insufficient-data failure, also when the window holds 7 snapshots or more.
C18_ReturnsSkipNonPositive ==
    (last.op = "risk" /\ Len(last.values) >= MinSnapshots) =>
        LET v == last.values
            r == last.returns
        IN  /\ Len(r) = Cardinality({i \in 2..Len(v) : v[i - 1] > 0})
            /\ Len(r) <= Len(v) - 1
            /\ \A k \in 1..Len(r) :
                  r[k] * v[PairOfReturn(v, k) - 1] =
                      (v[PairOfReturn(v, k)] - v[PairOfReturn(v, k) - 1])
                          * ReturnDenominator(v)
            /\ Len(r) < MinReturns =>
                  /\ ~last.success /\ ~last.raised
                  /\ last.message = "Not enough return data for risk calculations"

\* C18: a calculation over 7 or more snapshots has failed with some returns,
\* but fewer than 5, after skipping pairs.
C18_SevenSnapshotsFewReturns ==
    /\ last.op = "risk" /\ Len(last.values) >= MinSnapshots
    /\ Len(last.returns) >= 1 /\ Len(last.returns) < MinReturns
    /\ last.message = "Not enough return data for risk calculations"

\* C19: every transaction stored by the last sync has the direction that
\* comparing the addresses after lower-casing both sides gives: send when
\* the from-address is the wallet's, else receive when the to-address is,
\* else unknown.
C19_DirectionCaseNormalized ==
    last.op = "sync" =>
        \A w \in Wallets : \A i \in 1..Len(last.txs[w]) :
            LET tx_info == last.txs[w][i]
            IN  \A row \in transactions :
                    (row.wallet = w /\ row.transaction_hash = tx_info.hash) =>
                        row.transaction_type =
                            IF Lower(tx_info.from_address) = Lower(WalletAddress[w])
                            THEN "send"
                            ELSE IF Lower(tx_info.to_address) = Lower(WalletAddress[w])
                                 THEN "receive"
                            ELSE "unknown"

\* C20: after a sync, every token the provider reported for a wallet has its
\* row, and the row's USD value is balance times unit price, or 0 when the
\* price is absent or null.
C20_MissingPriceStoredAsZero ==
    last.op = "sync" =>
        \A w \in Wallets : \A i \in 1..Len(last.data[w]) :
            LET token_info == last.data[w][i]
                key == <<w, token_info.symbol>>
            IN  /\ key \in DOMAIN walletTokens
                /\ walletTokens[key] =
                       IF token_info.usd_price \in {Absent, NULL} THEN 0
                       ELSE RoundHalfEven(token_info.balance * token_info.usd_price,
                                          10 ^ token_info.decimals)

\* C16: each change the overview reports is 0 when its checkpoint is unset
\* or not above 0, and otherwise 100 * (current total - checkpoint) /
\* checkpoint; the request is answered without a division error.
C16_PerformanceChange ==
    last.op = "view" =>
        /\ last.status = 200
        /\ \A f \in {"day", "week", "month"} :
              LET checkpoint ==
                      CASE f = "day" -> portfolio.previous_day_value_usd
                        [] f = "week" -> portfolio.previous_week_value_usd
                        [] f = "month" -> portfolio.previous_month_value_usd
                  change ==
                      CASE f = "day" -> last.performance.daily_change_pct
                        [] f = "week" -> last.performance.weekly_change_pct
                        [] f = "month" -> last.performance.monthly_change_pct
              IN  /\ change.den # 0
                  /\ (checkpoint = NULL \/ checkpoint <= 0) => change.num = 0
                  /\ (checkpoint # NULL /\ checkpoint > 0) =>
                        change.num * checkpoint =
                            100 * (last.total_value_usd - checkpoint) * change.den

\* C16: the overview has reported a loss against a checkpoint above 0.
C16_ReportedLoss ==
    /\ last.op = "view"
    /\ portfolio.previous_day_value_usd > 0
    /\ last.total_value_usd < portfolio.previous_day_value_usd
    /\ last.total_value_usd > 0
    /\ last.performance.daily_change_pct.num < 0

\* C15: every cycle that persists its total on the Portfolio row appends
\* exactly one snapshot with that total, and every step of every operation
\* keeps the snapshots that exist, in their order.
C15_SnapshotsAppendOnly ==
    [][/\ Len(snapshots') >= Len(snapshots)
       /\ SubSeq(snapshots', 1, Len(snapshots)) = snapshots
       /\ (last'.op = "sync" /\ portfolio'.exists /\ portfolio'.last_updated = now) =>
             /\ Len(snapshots') = Len(snapshots) + 1
             /\ snapshots'[Len(snapshots')].total_value_usd = portfolio'.total_value_usd]_vars

\* C15, the part the code keeps: no step modifies or deletes a snapshot.
C15_SnapshotsKept ==
    [][/\ Len(snapshots') >= Len(snapshots)
       /\ SubSeq(snapshots', 1, Len(snapshots)) = snapshots]_vars

BothDone == \A r \in Requests : r \in DOMAIN inflight /\ inflight[r].pc = "done"

SnapshotBeyondExtrema ==
    \E i \in 1..Len(snapshots) :
        \/ snapshots[i].total_value_usd > portfolio.all_time_high_usd
        \/ snapshots[i].total_value_usd < portfolio.all_time_low_usd

\* C14: when two interleaved cycles have finished and the save of one has
\* overwritten an extremum the other had stored, the loss shows in the
\* history: the stored all-time-high is lower, or the all-time-low higher,
\* than the value of a recorded snapshot.
C14_LostUpdateShowsInSnapshots ==
    (BothDone /\ \E r \in Requests : inflight[r].overwrote) => SnapshotBeyondExtrema

\* C14, the part the code shows: the save of one of two finished cycles has
\* overwritten an extremum the other had stored.
C14_ExtremumOverwritten ==
    BothDone /\ \E r \in Requests : inflight[r].overwrote

\* C14: the code never reaches a state with a snapshot beyond the extrema.
C14_NoSnapshotBeyondExtrema == ~SnapshotBeyondExtrema

\* C22: after every sync the table holds at most one row per wallet and
\* transaction hash; a sync that is reported what the sync before it was
\* reported leaves the rows and their fields as they are, and its
\* transactions_synced is again the number of transactions it processed.
C22_TransactionSyncIdempotent ==
    [][/\ \A row1, row2 \in transactions' :
             (row1.wallet = row2.wallet /\ row1.transaction_hash = row2.transaction_hash)
                 => row1 = row2
       /\ (last.op = "sync" /\ last'.op = "sync" /\ calls' = calls
               /\ last'.data = last.data /\ last'.txs = last.txs) =>
             /\ transactions' = transactions
             /\ results'.transactions_synced = results.transactions_synced
             /\ results'.transactions_synced =
                    SumOver([w \in Wallets |->
                                Cardinality({i \in 1..Len(last'.txs[w]) :
                                    last'.txs[w][i].block_timestamp = "1700000000"})],
                            Wallets)]_vars

\* C22: a sync has been told the transactions of the sync before it, two of
\* them with one hash, and has counted both again with one row stored for
\* that wallet.
C22_RetoldAndCountedAgain ==
    /\ last.op = "sync" /\ last.retold
    /\ results.transactions_synced = 2
    /\ Len(last.txs["w1"]) = 2
    /\ Cardinality({row \in transactions : row.wallet = "w1"}) = 1

\* the sync and the calculation have both finished, the calculation with
\* success and the sync with a total above 0
SyncAndCalculationDone ==
    /\ {"r1", Calculation} \subseteq DOMAIN inflight
    /\ inflight["r1"].pc = "done"
    /\ inflight[Calculation].pc = "done" /\ inflight[Calculation].success
    /\ inflight["r1"].total_value > 0

\* C21: after a sync cycle with a total above 0 and a successful risk
\* calculation for the same portfolio have both finished, in whatever
\* order their steps were taken, the stored volatilities, max drawdown,
\* Sharpe ratio and value at risk are those the calculation wrote and the
\* stored concentration is the one of the cycle.
C21_NoRiskUpdateLost ==
    SyncAndCalculationDone =>
        /\ \A f \in RiskFigureFields :
              riskMetrics[f] = inflight[Calculation].risk_metrics[f]
        /\ riskMetrics.concentration_risk =
               ConcentrationRisk(walletTokens, inflight["r1"].total_value)

\* C21, the part the code keeps: the stored figures are those the
\* calculation wrote.
C21_FiguresKept ==
    SyncAndCalculationDone =>
        \A f \in RiskFigureFields :
            riskMetrics[f] = inflight[Calculation].risk_metrics[f]

\* C21: the stored concentration is the one of the cycle.
C21_ConcentrationKept ==
    SyncAndCalculationDone =>
        riskMetrics.concentration_risk =
            ConcentrationRisk(walletTokens, inflight["r1"].total_value)

====
